---- MODULE Spec2Model ----
(***************************************************************************)
(* TradeAudit Pro: the FIFO position-reconstruction engine of the Kotak    *)
(* parser (modules/parsers/kotak_parser.py), the discipline scorer         *)
(* (modules/analysis/discipline_scorer.py), the broker router              *)
(* (modules/parsers/broker_parser.py) and the upload handler process_file  *)
(* (app.py).                                                               *)
(*                                                                         *)
(* Specifications:                                                         *)
(*   Spec         reconstruct_trades_with_validation on one ledger, a row  *)
(*                of the FIFO loop per step                                *)
(*   SpecRun      the same, run to its return (weak fairness of Next)      *)
(*   SpecTies     the same on ledgers with repeated and null timestamps    *)
(*   SpecScore    one call of calculate_single_trade_score                 *)
(*   SpecStats    one call of calculate_portfolio_stats                    *)
(*   SpecRecord   one call of create_trade_record                          *)
(*   SpecPatterns one call of detect_behavioral_patterns                   *)
(*   SpecSession  a sequence of uploads handled by process_file            *)
(*                                                                         *)
(* Money is fixed-point: one unit is a fifth of a cent (0.002), so that    *)
(* sub-cent amounts exist and rounding to 2 decimals never meets a tie.    *)
(* Time is in seconds; NaT is the unparseable timestamp.                   *)
(***************************************************************************)
EXTENDS Integers, Sequences, FiniteSets, TLC

\* ------------------------------------------------------------------ bounds
\* The longest ledger (number of execution rows of one upload).
MaxRows == 4

\* ------------------------------------------------------------------ values
\* pd.to_datetime(..., errors='coerce') turns an unparseable timestamp into NaT.
NaT == -1
\* create_trade_record stores None for a NaT exit_time.
NoneTime == -2
Symbols == {"AAA", "BBB"}
Actions == {"Buy", "Sell"}
Qtys == {1, 2}

VARIABLES
    \* reconstruct_trades_with_validation
    df,                 \* the ledger handed to reconstruct_trades_with_validation
    sorted_df,          \* df after sort_values('trade_datetime')
    symbol_qty_check,   \* symbol -> [buy_qty, sell_qty, matched, difference]
    pc,                 \* position in reconstruct_trades_with_validation
    groups,             \* the symbols the second groupby loop still has to visit
    rowPos,             \* position of the next row in the current symbol's group
    position_queue,     \* the current symbol's deque of open legs
    trades,             \* the list `trades`
    attention_required, \* the list `attention_required`
    \* one call of a pure function
    call,               \* the function called and its arguments
    result,             \* what it returned, once it has
    \* the Streamlit session (app.py)
    session,            \* st.session_state: trades_df, stats, attention_df
    shown,              \* what the last process_file put on the page
    ret,                \* what parse_broker_file returned to the last process_file
    upload,             \* the file of the last process_file
    lastGood            \* the last uploaded file that was a readable Kotak ledger

reconVars == <<df, sorted_df, symbol_qty_check, pc, groups, rowPos, position_queue,
               trades, attention_required>>
callVars == <<call, result>>
sessionVars == <<session, shown, ret, upload, lastGood>>
vars == <<reconVars, callVars, sessionVars>>

\* ------------------------------------------------------- sequence helpers
Range(s) == {s[i] : i \in DOMAIN s}

RECURSIVE SumSeq(_)
SumSeq(s) == IF s = <<>> THEN 0 ELSE Head(s) + SumSeq(Tail(s))

\* Symbols compare as strings do; the model has two.
SymbolsSorted(S) ==
    IF S = {} THEN <<>>
    ELSE IF S = {"AAA"} THEN <<"AAA">>
    ELSE IF S = {"BBB"} THEN <<"BBB">>
    ELSE <<"AAA", "BBB">>

\* --------------------------------------------------------------- the sort
\* df.sort_values('trade_datetime'): ascending, NaT rows last in their
\* original order (na_position='last'); the default kind is quicksort, which
\* is not stable, so rows with equal timestamps may come out in any order.
IsSortOutcome(d, p) ==
    /\ \A i, j \in DOMAIN d :
          (i < j) =>
             LET a == d[p[i]].time
                 b == d[p[j]].time
             IN  \/ b = NaT /\ a # NaT
                 \/ a = NaT /\ b = NaT /\ p[i] < p[j]
                 \/ a # NaT /\ b # NaT /\ a <= b

\* SortOutcomes leaving the frame in the order of the file.
SortOutcomesUnsorted(d) == {d}

SortOutcomes(d) ==
    {[i \in DOMAIN d |-> d[p[i]]] :
        p \in {q \in Permutations(DOMAIN d) : IsSortOutcome(d, q)}}

\* The rows of one symbol, in the order of the frame (groupby keeps it).
GroupOf(d, symbol) == SelectSeq(d, LAMBDA r : r.sym = symbol)

\* ------------------------------------------------- the quantity check
BuyQty(group)  == SumSeq([i \in DOMAIN group |->
                     IF group[i].action = "Buy" THEN group[i].qty ELSE 0])
SellQty(group) == SumSeq([i \in DOMAIN group |->
                     IF group[i].action = "Sell" THEN group[i].qty ELSE 0])

\* QtyCheck comparing the number of Buy and Sell rows instead of their
\* quantities.
QtyCheckByRowCount(group) ==
    [buy_qty    |-> BuyQty(group),
     sell_qty   |-> SellQty(group),
     matched    |-> Len(SelectSeq(group, LAMBDA r : r.action = "Buy"))
                    = Len(SelectSeq(group, LAMBDA r : r.action = "Sell")),
     difference |-> BuyQty(group) - SellQty(group)]

QtyCheck(group) ==
    [buy_qty    |-> BuyQty(group),
     sell_qty   |-> SellQty(group),
     matched    |-> BuyQty(group) = SellQty(group),
     difference |-> BuyQty(group) - SellQty(group)]

SymbolQtyCheck(d) ==
    [symbol \in {r.sym : r \in Range(d)} |-> QtyCheck(GroupOf(d, symbol))]

AttentionItem(symbol, chk, group) ==
    [symbol     |-> symbol,
     reason     |-> "Quantity Mismatch",
     buy_qty    |-> chk.buy_qty,
     sell_qty   |-> chk.sell_qty,
     difference |-> chk.difference,
     status     |-> IF chk.difference > 0 THEN "LONG" ELSE "SHORT",
     trades     |-> [i \in DOMAIN group |-> group[i].idx]]

\* ------------------------------------------------- create_trade_record
\* int(x) truncates toward zero.
TruncDiv(a, b) == IF a >= 0 THEN a \div b ELSE -((-a) \div b)

\* round(x, 2): to the nearest cent; a cent is 5 units, so no value is a tie.
Round2(v) == ((v + 2) \div 5) * 5

\* HoldingMinutes without the test for a missing timestamp.
HoldingMinutesUnguarded(entry_time, exit_time) ==
    TruncDiv(exit_time - entry_time, 60)

HoldingMinutes(entry_time, exit_time) ==
    IF entry_time # NaT /\ exit_time # NaT
    THEN TruncDiv(exit_time - entry_time, 60)
    ELSE 0

\* GrossPnl without the direction: the Long formula for every trade.
GrossPnlLongOnly(entry, exit_row, direction) ==
    (exit_row.price - entry.price) * entry.qty

\* GrossPnl over the quantity of the closing row.
GrossPnlExitQty(entry, exit_row, direction) ==
    IF direction = "LONG"
    THEN (exit_row.price - entry.price) * exit_row.qty
    ELSE (entry.price - exit_row.price) * exit_row.qty

GrossPnl(entry, exit_row, direction) ==
    IF direction = "LONG"
    THEN (exit_row.price - entry.price) * entry.qty
    ELSE (entry.price - exit_row.price) * entry.qty

TradeType(holding_minutes) ==
    IF holding_minutes < 1440 THEN "Intraday" ELSE "Delivery"

\* CreateTradeRecord with the two timestamps taken from the wrong rows.
CreateTradeRecordTimesSwapped(entry, exit_row, symbol, direction) ==
    LET holding_minutes == HoldingMinutes(entry.time, exit_row.time)
        gross_pnl       == GrossPnl(entry, exit_row, direction)
        total_charges   == entry.charges + exit_row.charges
        net_pnl         == gross_pnl - total_charges
    IN  [symbol                 |-> symbol,
         direction              |-> direction,
         entry_time             |-> exit_row.time,
         exit_time              |-> IF entry.time # NaT THEN entry.time
                                    ELSE NoneTime,
         quantity               |-> entry.qty,
         entry_price            |-> Round2(entry.price),
         exit_price             |-> Round2(exit_row.price),
         gross_pnl              |-> Round2(gross_pnl),
         total_charges          |-> Round2(total_charges),
         net_pnl                |-> Round2(net_pnl),
         holding_period_minutes |-> holding_minutes,
         trade_type             |-> TradeType(holding_minutes),
         entry_idx              |-> entry.idx,
         exit_idx               |-> exit_row.idx]

\* entry_idx and exit_idx are the frame's index labels of the two rows (the
\* `idx` of iterrows); the code does not store them, they name the rows here.
\* Of a row's charges only the total is kept (brokerage, stt, gst and misc are
\* summed the same way, field by field), and the fields copied through
\* unchanged (broker, exchange, trade_category, entry_date) are left out.
CreateTradeRecord(entry, exit_row, symbol, direction) ==
    LET holding_minutes == HoldingMinutes(entry.time, exit_row.time)
        gross_pnl       == GrossPnl(entry, exit_row, direction)
        total_charges   == entry.charges + exit_row.charges
        net_pnl         == gross_pnl - total_charges
    IN  [symbol                 |-> symbol,
         direction              |-> direction,
         entry_time             |-> entry.time,
         exit_time              |-> IF exit_row.time # NaT THEN exit_row.time
                                    ELSE NoneTime,
         quantity               |-> entry.qty,
         entry_price            |-> Round2(entry.price),
         exit_price             |-> Round2(exit_row.price),
         gross_pnl              |-> Round2(gross_pnl),
         total_charges          |-> Round2(total_charges),
         net_pnl                |-> Round2(net_pnl),
         holding_period_minutes |-> holding_minutes,
         trade_type             |-> TradeType(holding_minutes),
         entry_idx              |-> entry.idx,
         exit_idx               |-> exit_row.idx]

\* ------------------------------------------------- the FIFO row loop
OpenLeg(type, row) ==
    [type    |-> type,
     qty     |-> row.qty,
     price   |-> row.price,
     time    |-> row.time,
     charges |-> row.charges,
     idx     |-> row.idx]

\* PopLeg taking the newest leg: pop() instead of popleft().
PopLegRight(queue) ==
    [leg |-> queue[Len(queue)], rest |-> SubSeq(queue, 1, Len(queue) - 1)]

\* PopLeg reading the oldest leg without taking it out: queue[0] instead of
\* popleft().
PopLegPeeking(queue) == [leg |-> Head(queue), rest |-> queue]

\* position_queue.popleft()
PopLeg(queue) == [leg |-> Head(queue), rest |-> Tail(queue)]

\* ClosesShort without the check of the front leg's type.
ClosesAnyLeg(queue, row) == row.action = "Buy" /\ queue # <<>>

ClosesShort(queue, row) ==
    row.action = "Buy" /\ queue # <<>> /\ queue[1].type = "short"
\* ClosesLong testing the front leg for the kind the Buy branch tests for.
ClosesLongTestingShort(queue, row) ==
    row.action = "Sell" /\ queue # <<>> /\ queue[1].type = "short"

ClosesLong(queue, row) ==
    row.action = "Sell" /\ queue # <<>> /\ queue[1].type = "long"

\* One iteration of `for idx, row in group.iterrows()`: the queue and the
\* trade list after the row.
ProcessRow(queue, tr, row, symbol) ==
    IF row.action = "Buy"
    THEN IF ClosesShort(queue, row)
         THEN [queue  |-> PopLeg(queue).rest,
               trades |-> Append(tr, CreateTradeRecord(PopLeg(queue).leg, row,
                                                       symbol, "SHORT"))]
         ELSE [queue  |-> Append(queue, OpenLeg("long", row)),
               trades |-> tr]
    ELSE IF row.action = "Sell"
    THEN IF ClosesLong(queue, row)
         THEN [queue  |-> PopLeg(queue).rest,
               trades |-> Append(tr, CreateTradeRecord(PopLeg(queue).leg, row,
                                                       symbol, "LONG"))]
         ELSE [queue  |-> Append(queue, OpenLeg("short", row)),
               trades |-> tr]
    ELSE [queue |-> queue, trades |-> tr]

\* ------------------------------------------------------- idle values
NoCall == [fn |-> "none"]
Pending == [done |-> FALSE]
Returned(v) == [done |-> TRUE, value |-> v]

CallIdle == call = NoCall /\ result = Pending

\* A frame or None.
NoneFrame == [is_none |-> TRUE, rows |-> <<>>]
Frame(rows) == [is_none |-> FALSE, rows |-> rows]

NoneStats == [kind |-> "None"]
EmptyStats == [kind |-> "empty"]

\* main(): the three session keys start as None.
InitialSession ==
    [trades_df |-> NoneFrame, stats |-> NoneStats, attention_df |-> NoneFrame]

NoFile == [kind |-> "no file"]
NoReturn == [arity |-> 0]

SessionIdle ==
    /\ session = InitialSession
    /\ shown = <<>>
    /\ ret = NoReturn
    /\ upload = NoFile
    /\ lastGood = NoFile

ReconIdle ==
    /\ df = <<>>
    /\ sorted_df = <<>>
    /\ symbol_qty_check = <<>>
    /\ pc = "idle"
    /\ groups = <<>>
    /\ rowPos = 1
    /\ position_queue = <<>>
    /\ trades = <<>>
    /\ attention_required = <<>>

\* ------------------------------- reconstruct_trades_with_validation, stepwise
CurSymbol == Head(groups)
CurGroup  == GroupOf(sorted_df, CurSymbol)
CurRow    == CurGroup[rowPos]

\* Lines 83-97: the sort and the per-symbol quantity check.
SortAndCheck ==
    /\ pc = "start"
    /\ \E s \in SortOutcomes(df) :
          /\ sorted_df' = s
          /\ symbol_qty_check' = SymbolQtyCheck(s)
          /\ groups' = SymbolsSorted({r.sym : r \in Range(s)})
    /\ pc' = "loop"
    /\ UNCHANGED <<df, rowPos, position_queue, trades, attention_required>>
    /\ UNCHANGED <<callVars, sessionVars>>

\* Attention leaving the loop over the symbols (`break` for `continue`).
AttentionAborting ==
    /\ pc = "loop" /\ groups # <<>>
    /\ ~symbol_qty_check[CurSymbol].matched
    /\ attention_required' =
          Append(attention_required,
                 AttentionItem(CurSymbol, symbol_qty_check[CurSymbol], CurGroup))
    /\ groups' = <<>>
    /\ UNCHANGED <<df, sorted_df, symbol_qty_check, pc, rowPos, position_queue,
                   trades>>
    /\ UNCHANGED <<callVars, sessionVars>>

\* Lines 102-114: an imbalanced symbol goes to attention_required; continue.
Attention ==
    /\ pc = "loop" /\ groups # <<>>
    /\ ~symbol_qty_check[CurSymbol].matched
    /\ attention_required' =
          Append(attention_required,
                 AttentionItem(CurSymbol, symbol_qty_check[CurSymbol], CurGroup))
    /\ groups' = Tail(groups)
    /\ UNCHANGED <<df, sorted_df, symbol_qty_check, pc, rowPos, position_queue,
                   trades>>
    /\ UNCHANGED <<callVars, sessionVars>>

\* Line 117: a balanced symbol starts with a fresh deque.
BeginSymbol ==
    /\ pc = "loop" /\ groups # <<>>
    /\ symbol_qty_check[CurSymbol].matched
    /\ position_queue' = <<>>
    /\ rowPos' = 1
    /\ pc' = "rows"
    /\ UNCHANGED <<df, sorted_df, symbol_qty_check, groups, trades,
                   attention_required>>
    /\ UNCHANGED <<callVars, sessionVars>>

RowStep ==
    /\ pc = "rows" /\ rowPos <= Len(CurGroup)
    /\ LET r == ProcessRow(position_queue, trades, CurRow, CurSymbol)
       IN  /\ position_queue' = r.queue
           /\ trades' = r.trades
    /\ rowPos' = rowPos + 1
    /\ UNCHANGED <<df, sorted_df, symbol_qty_check, pc, groups,
                   attention_required>>
    /\ UNCHANGED <<callVars, sessionVars>>

\* Lines 121-132
BuyClosesShort == RowStep /\ ClosesShort(position_queue, CurRow)
\* Lines 133-147
BuyOpensLong ==
    RowStep /\ CurRow.action = "Buy" /\ ~ClosesShort(position_queue, CurRow)
\* Lines 149-160
SellClosesLong == RowStep /\ ClosesLong(position_queue, CurRow)
\* Lines 161-175
SellOpensShort ==
    RowStep /\ CurRow.action = "Sell" /\ ~ClosesLong(position_queue, CurRow)

\* EndSymbol reporting what is left in the deque as an attention item.
EndSymbolReportingResidue ==
    /\ pc = "rows" /\ rowPos > Len(CurGroup)
    /\ groups' = Tail(groups)
    /\ pc' = "loop"
    /\ attention_required' =
          IF position_queue = <<>> THEN attention_required
          ELSE Append(attention_required,
                      AttentionItem(CurSymbol, symbol_qty_check[CurSymbol], CurGroup))
    /\ UNCHANGED <<df, sorted_df, symbol_qty_check, rowPos, position_queue,
                   trades>>
    /\ UNCHANGED <<callVars, sessionVars>>

\* The row loop of a symbol ends; whatever is left in the deque is dropped
\* with it when the next symbol starts.
EndSymbol ==
    /\ pc = "rows" /\ rowPos > Len(CurGroup)
    /\ groups' = Tail(groups)
    /\ pc' = "loop"
    /\ UNCHANGED <<df, sorted_df, symbol_qty_check, rowPos, position_queue,
                   trades, attention_required>>
    /\ UNCHANGED <<callVars, sessionVars>>

\* Lines 177-180
Return ==
    /\ pc = "loop" /\ groups = <<>>
    /\ pc' = "done"
    /\ UNCHANGED <<df, sorted_df, symbol_qty_check, groups, rowPos,
                   position_queue, trades, attention_required>>
    /\ UNCHANGED <<callVars, sessionVars>>

\* ------------------------------------------------------------ the ledgers
\* Where the rows' timestamps stand relative to the ledger order: a statement
\* listed oldest first, one listed newest first, and one whose first row has
\* an unparseable timestamp.
TimeProfiles == {"oldest_first", "newest_first", "first_unparseable"}

ProfileTime(profile, i, n) ==
    IF profile = "oldest_first" THEN 90 * i
    ELSE IF profile = "newest_first" THEN 90 * (n + 1 - i)
    ELSE IF i = 1 THEN NaT ELSE 90 * i

\* Price and charges of the i-th ledger row: 10.00, 10.50, ... and 0.20, 0.40, ...
RowPrice(i)   == 5000 + 250 * (i - 1)
RowCharges(i) == 100 * i

MakeRow(i, n, choice, profile) ==
    [idx     |-> i,
     sym     |-> choice[1],
     action  |-> choice[2],
     qty     |-> choice[3],
     price   |-> RowPrice(i),
     time    |-> ProfileTime(profile, i, n),
     charges |-> RowCharges(i)]

\* A ledger of n rows: the rows' symbol, action and quantity are free.
Ledger(n, c, profile) == [i \in 1..n |-> MakeRow(i, n, c[i], profile)]

Init ==
    /\ \E n \in 0..MaxRows :
          \E c \in [1..n -> Symbols \X Actions \X Qtys] :
             \E profile \in TimeProfiles :
                df = Ledger(n, c, profile)
    /\ sorted_df = <<>>
    /\ symbol_qty_check = <<>>
    /\ pc = "start"
    /\ groups = <<>>
    /\ rowPos = 1
    /\ position_queue = <<>>
    /\ trades = <<>>
    /\ attention_required = <<>>
    /\ CallIdle
    /\ SessionIdle

Next ==
    \/ SortAndCheck
    \/ Attention
    \/ BeginSymbol
    \/ BuyClosesShort
    \/ BuyOpensLong
    \/ SellClosesLong
    \/ SellOpensShort
    \/ EndSymbol
    \/ Return

Spec == Init /\ [][Next]_vars

\* ------------------------------------------------- the function run to its end
\* The longest ledger of the runs followed to their end.
MaxRunRows == 3

InitRun ==
    /\ \E n \in 0..MaxRunRows :
          \E c \in [1..n -> Symbols \X Actions \X Qtys] :
             \E profile \in TimeProfiles :
                df = Ledger(n, c, profile)
    /\ sorted_df = <<>>
    /\ symbol_qty_check = <<>>
    /\ pc = "start"
    /\ groups = <<>>
    /\ rowPos = 1
    /\ position_queue = <<>>
    /\ trades = <<>>
    /\ attention_required = <<>>
    /\ CallIdle
    /\ SessionIdle

\* The function runs on one thread and waits for nothing: a step it can take,
\* it takes.
SpecRun == InitRun /\ [][Next]_vars /\ WF_vars(Next)

\* ------------------------------------- ledgers with repeated and null times
\* The longest ledger whose rows' timestamps are free.
MaxTieRows == 3

\* A row's timestamp: unparseable, 00:01:30, or the same time a day later.
TieTimes == {NaT, 90, 90 + 1440 * 60}

\* A ledger of n rows of quantity 1: the rows' symbol, action and timestamp
\* are free, so rows may share a timestamp or have none.
TieLedger(n, c) ==
    [i \in 1..n |-> [idx     |-> i,
                     sym     |-> c[i][1],
                     action  |-> c[i][2],
                     qty     |-> 1,
                     price   |-> RowPrice(i),
                     time    |-> c[i][3],
                     charges |-> RowCharges(i)]]

InitTies ==
    /\ \E n \in 0..MaxTieRows :
          \E c \in [1..n -> Symbols \X Actions \X TieTimes] :
             df = TieLedger(n, c)
    /\ sorted_df = <<>>
    /\ symbol_qty_check = <<>>
    /\ pc = "start"
    /\ groups = <<>>
    /\ rowPos = 1
    /\ position_queue = <<>>
    /\ trades = <<>>
    /\ attention_required = <<>>
    /\ CallIdle
    /\ SessionIdle

SpecTies == InitTies /\ [][Next]_vars

\* ==================================================================
\* discipline_scorer.py
\* ==================================================================
\* Amounts in rupees as units (500 units to the rupee).
Rupees(n) == 500 * n

Abs(x) == IF x < 0 THEN -x ELSE x
Min(a, b) == IF a < b THEN a ELSE b

\* A quotient num/den of the code's float arithmetic, den > 0, kept exact.
Ratio(num, den) == [num |-> num, den |-> den]
RatioLt(r, a, b) == r.num * b < a * r.den      \* r < a/b, b > 0
RatioGt(r, a, b) == r.num * b > a * r.den      \* r > a/b, b > 0

PositionValue(trade) == trade.entry_price * trade.quantity

\* return_pct = (pnl / position_value) * 100 if position_value > 0 else 0
ReturnPct(trade) ==
    IF PositionValue(trade) > 0
    THEN Ratio(trade.net_pnl * 100, PositionValue(trade))
    ELSE Ratio(0, 1)

AbsRatio(r) == Ratio(Abs(r.num), r.den)

\* PnlScore with a penalty for the largest losses instead of no points.
PnlScorePenalising(trade) ==
    LET pnl == trade.net_pnl
        return_pct == ReturnPct(trade)
    IN  IF pnl > 0
        THEN IF RatioGt(return_pct, 2, 1) THEN 30
             ELSE IF RatioGt(return_pct, 1, 1) THEN 25
             ELSE IF RatioGt(return_pct, 1, 2) THEN 20
             ELSE 15
        ELSE IF RatioLt(AbsRatio(return_pct), 1, 2) THEN 15
             ELSE IF RatioLt(AbsRatio(return_pct), 1, 1) THEN 10
             ELSE IF RatioLt(AbsRatio(return_pct), 2, 1) THEN 5
             ELSE -50

\* 1. P&L performance (30 points)
PnlScore(trade) ==
    LET pnl == trade.net_pnl
        return_pct == ReturnPct(trade)
    IN  IF pnl > 0
        THEN IF RatioGt(return_pct, 2, 1) THEN 30
             ELSE IF RatioGt(return_pct, 1, 1) THEN 25
             ELSE IF RatioGt(return_pct, 1, 2) THEN 20
             ELSE 15
        ELSE IF RatioLt(AbsRatio(return_pct), 1, 2) THEN 15
             ELSE IF RatioLt(AbsRatio(return_pct), 1, 1) THEN 10
             ELSE IF RatioLt(AbsRatio(return_pct), 2, 1) THEN 5
             ELSE 0

\* HoldingScore giving the ideal holding period 25 points.
HoldingScoreGenerous(holding_mins) ==
    IF holding_mins < 0 THEN 10
    ELSE IF holding_mins < 5 THEN 5
    ELSE IF 15 <= holding_mins /\ holding_mins <= 240 THEN 25
    ELSE IF 240 < holding_mins /\ holding_mins <= 480 THEN 15
    ELSE IF holding_mins > 1440 THEN 18
    ELSE 10

\* HoldingScore without the branch for a negative holding period, which then
\* falls into the scalping tier.
HoldingScoreScalpingFirst(holding_mins) ==
    IF holding_mins < 5 THEN 5
    ELSE IF 15 <= holding_mins /\ holding_mins <= 240 THEN 20
    ELSE IF 240 < holding_mins /\ holding_mins <= 480 THEN 15
    ELSE IF holding_mins > 1440 THEN 18
    ELSE 10

\* 2. Holding period (20 points)
HoldingScore(holding_mins) ==
    IF holding_mins < 0 THEN 10
    ELSE IF holding_mins < 5 THEN 5
    ELSE IF 15 <= holding_mins /\ holding_mins <= 240 THEN 20
    ELSE IF 240 < holding_mins /\ holding_mins <= 480 THEN 15
    ELSE IF holding_mins > 1440 THEN 18
    ELSE 10

\* 3. Position sizing (20 points)
SizingScore(position_value) ==
    IF Rupees(10000) <= position_value /\ position_value <= Rupees(500000) THEN 20
    ELSE IF Rupees(5000) <= position_value /\ position_value < Rupees(10000) THEN 15
    ELSE IF Rupees(500000) < position_value /\ position_value <= Rupees(1000000) THEN 10
    ELSE IF position_value > Rupees(1000000) THEN 5
    ELSE 10

\* charges_pct = (total_charges / abs(pnl)) * 100 if pnl != 0 else 100
ChargesPct(trade) ==
    IF trade.net_pnl # 0
    THEN Ratio(trade.total_charges * 100, Abs(trade.net_pnl))
    ELSE Ratio(100, 1)

\* 4. Risk management (15 points)
ChargeScore(trade) ==
    IF RatioLt(ChargesPct(trade), 10, 1) THEN 15
    ELSE IF RatioLt(ChargesPct(trade), 25, 1) THEN 12
    ELSE IF RatioLt(ChargesPct(trade), 50, 1) THEN 8
    ELSE 5

\* 5. Execution quality (15 points)
ExecutionScore(trade_type) ==
    IF trade_type = "Intraday" THEN 15
    ELSE IF trade_type = "Delivery" THEN 12
    ELSE 10

CalculateSingleTradeScore(trade) ==
    Min(PnlScore(trade)
          + HoldingScore(trade.holding_period_minutes)
          + SizingScore(PositionValue(trade))
          + ChargeScore(trade)
          + ExecutionScore(trade.trade_type),
        100)

ScoreToGrade(score) ==
    IF score >= 90 THEN "A+"
    ELSE IF score >= 80 THEN "A"
    ELSE IF score >= 70 THEN "B"
    ELSE IF score >= 60 THEN "C"
    ELSE IF score >= 50 THEN "D"
    ELSE "F"

\* trades_df['win'] = trades_df['net_pnl'] > 0
WinFlag(trade) == trade.net_pnl > 0

\* The fields calculate_discipline_scores adds to one trade (return_pct, a
\* float quotient nothing here reads, is left out).
Scored(trade) ==
    [discipline_score |-> CalculateSingleTradeScore(trade),
     grade            |-> ScoreToGrade(CalculateSingleTradeScore(trade)),
     win              |-> WinFlag(trade)] @@ trade

CalculateDisciplineScores(trades_df) ==
    [k \in DOMAIN trades_df |-> Scored(trades_df[k])]

\* ------------------------------------------------ the scorer, called alone
\* The trades the scorer is called on: break-even, small and large wins and
\* losses; a position value of zero, below, at and above each sizing step;
\* no charges; holding periods on both sides of each step, one negative.
ScorePnls == {Rupees(n) : n \in {-20000, -150, -75, -50, -25, 0, 25, 50, 75, 150, 20000}}
ScorePrices == {Rupees(n) : n \in {0, 50, 100, 5000, 10000}}
ScoreQtys == {0, 1, 100, 101}
ScoreCharges == {Rupees(n) : n \in {0, 1, 20, 100}}
ScoreHoldings == {-5, 0, 4, 5, 14, 15, 240, 241, 480, 481, 1440, 1441}
ScoreTradeTypes == {"Intraday", "Delivery", "Unknown"}

InitScore ==
    /\ \E pnl \in ScorePnls, price \in ScorePrices, qty \in ScoreQtys,
          charges \in ScoreCharges, holding \in ScoreHoldings,
          type \in ScoreTradeTypes :
          call = [fn                     |-> "calculate_single_trade_score",
                  trade |-> [net_pnl                |-> pnl,
                             entry_price            |-> price,
                             quantity               |-> qty,
                             total_charges          |-> charges,
                             holding_period_minutes |-> holding,
                             trade_type             |-> type]]
    /\ result = Pending
    /\ ReconIdle
    /\ SessionIdle

ScoreTrade ==
    /\ call.fn = "calculate_single_trade_score"
    /\ result = Pending
    /\ result' = Returned(CalculateSingleTradeScore(call.trade))
    /\ UNCHANGED <<call, reconVars, sessionVars>>

NextScore == ScoreTrade

SpecScore == InitScore /\ [][NextScore]_vars

\* ------------------------------------------------ calculate_portfolio_stats
Wins(trades_df)   == SelectSeq(trades_df, LAMBDA t : t.net_pnl > 0)
\* Losses without the break-even trades.
LossesStrict(trades_df) == SelectSeq(trades_df, LAMBDA t : t.net_pnl < 0)

Losses(trades_df) == SelectSeq(trades_df, LAMBDA t : t.net_pnl <= 0)

SumNetPnl(trades_df) == SumSeq([k \in DOMAIN trades_df |-> trades_df[k].net_pnl])

\* ProfitFactor with a loss total of 0, not 1, when there are no losses.
ProfitFactorZeroDefault(trades_df) ==
    LET wins         == Wins(trades_df)
        losses       == Losses(trades_df)
        total_wins   == IF Len(wins) > 0 THEN SumNetPnl(wins) ELSE 0
        total_losses == IF Len(losses) > 0 THEN Abs(SumNetPnl(losses)) ELSE 0
    IN  IF total_losses > 0 THEN Ratio(total_wins, total_losses) ELSE Ratio(0, 1)

\* Lines 151-154
ProfitFactor(trades_df) ==
    LET wins         == Wins(trades_df)
        losses       == Losses(trades_df)
        total_wins   == IF Len(wins) > 0 THEN SumNetPnl(wins) ELSE 0
        total_losses == IF Len(losses) > 0 THEN Abs(SumNetPnl(losses)) ELSE 1
    IN  IF total_losses > 0 THEN Ratio(total_wins, total_losses) ELSE Ratio(0, 1)

OfDirection(trades_df, direction) ==
    SelectSeq(trades_df, LAMBDA t : t.direction = direction)

\* len(wins of d) / len(d) * 100 if len(d) > 0 else 0
WinRate(d) ==
    IF Len(d) > 0 THEN Ratio(Len(Wins(d)) * 100, Len(d)) ELSE Ratio(0, 1)

SumNetPnlOrZero(d) == IF Len(d) > 0 THEN SumNetPnl(d) ELSE 0

\* 'col' in trades_df.columns, for a frame with a row.
HasColumn(trades_df, col) == col \in DOMAIN trades_df[1]

\* The counts, the net and charge totals, the profit factor and the
\* per-direction figures; the averages, the extremes and the charge breakdown
\* of lines 141-148 and 168-174 are left out.
CalculatePortfolioStats(trades_df) ==
    IF Len(trades_df) = 0 THEN EmptyStats
    ELSE [kind           |-> "stats",
          total_trades   |-> Len(trades_df),
          winning_trades |-> Len(Wins(trades_df)),
          losing_trades  |-> Len(Losses(trades_df)),
          win_rate       |-> WinRate(trades_df),
          net_pnl        |-> SumNetPnl(trades_df),
          total_charges  |-> IF HasColumn(trades_df, "total_charges")
                             THEN SumSeq([k \in DOMAIN trades_df |->
                                            trades_df[k].total_charges])
                             ELSE 0,
          profit_factor  |-> ProfitFactor(trades_df),
          long_trades    |-> Len(OfDirection(trades_df, "LONG")),
          short_trades   |-> Len(OfDirection(trades_df, "SHORT")),
          long_pnl       |-> SumNetPnlOrZero(OfDirection(trades_df, "LONG")),
          short_pnl      |-> SumNetPnlOrZero(OfDirection(trades_df, "SHORT")),
          long_win_rate  |-> WinRate(OfDirection(trades_df, "LONG")),
          short_win_rate |-> WinRate(OfDirection(trades_df, "SHORT"))]

\* ------------------------------------------- portfolio stats, called alone
\* The longest trade list the statistics are called on.
MaxTrades == 3

StatsPnls == {Rupees(n) : n \in {-100, -50, 0, 50, 100}}
Directions == {"LONG", "SHORT"}

InitStats ==
    /\ \E n \in 0..MaxTrades :
          \E t \in [1..n -> StatsPnls \X Directions] :
             call = [fn        |-> "calculate_portfolio_stats",
                     trades_df |-> [k \in 1..n |-> [net_pnl   |-> t[k][1],
                                                    direction |-> t[k][2]]]]
    /\ result = Pending
    /\ ReconIdle
    /\ SessionIdle

PortfolioStats ==
    /\ call.fn = "calculate_portfolio_stats"
    /\ result = Pending
    /\ result' = Returned(CalculatePortfolioStats(call.trades_df))
    /\ UNCHANGED <<call, reconVars, sessionVars>>

NextStats == PortfolioStats

SpecStats == InitStats /\ [][NextStats]_vars

\* --------------------------------------------- create_trade_record, called alone
\* Prices and charges with sub-cent parts (a cent is 5 units).
RecordPrices == {5000, 5001, 5003}
RecordQtys == {1, 2, 3}
RecordCharges == {0, 1, 2, 3, 100}

\* A call of create_trade_record: the open leg, the closing row, the direction.
RecordCall(direction, qty, entry_price, exit_price, entry_charges, exit_charges) ==
    [fn        |-> "create_trade_record",
     entry     |-> [type    |-> IF direction = "LONG" THEN "long" ELSE "short",
                    qty     |-> qty,
                    price   |-> entry_price,
                    time    |-> 60,
                    charges |-> entry_charges,
                    idx     |-> 1],
     exit_row  |-> [idx     |-> 2,
                    sym     |-> "AAA",
                    action  |-> IF direction = "LONG" THEN "Sell" ELSE "Buy",
                    qty     |-> qty,
                    price   |-> exit_price,
                    time    |-> 150,
                    charges |-> exit_charges],
     symbol    |-> "AAA",
     direction |-> direction]

\* Two round trips in whole rupees: Buy 100 @ 10 closed by Sell 100 @ 12 with
\* charges 5 + 5, and Sell 50 @ 20 closed by Buy 50 @ 18 with charges 2 + 2.
LongRoundTrip ==
    RecordCall("LONG", 100, Rupees(10), Rupees(12), Rupees(5), Rupees(5))
ShortRoundTrip ==
    RecordCall("SHORT", 50, Rupees(20), Rupees(18), Rupees(2), Rupees(2))

InitRecord ==
    /\ \/ \E entry_price \in RecordPrices, exit_price \in RecordPrices,
             qty \in RecordQtys, entry_charges \in RecordCharges,
             exit_charges \in RecordCharges, direction \in Directions :
             call = RecordCall(direction, qty, entry_price, exit_price,
                               entry_charges, exit_charges)
       \/ call \in {LongRoundTrip, ShortRoundTrip}
    /\ result = Pending
    /\ ReconIdle
    /\ SessionIdle

BuildRecord ==
    /\ call.fn = "create_trade_record"
    /\ result = Pending
    /\ result' = Returned(CreateTradeRecord(call.entry, call.exit_row,
                                            call.symbol, call.direction))
    /\ UNCHANGED <<call, reconVars, sessionVars>>

NextRecord == BuildRecord

SpecRecord == InitRecord /\ [][NextRecord]_vars

\* ------------------------------------------------ detect_behavioral_patterns
\* A trade's entry_date when its entry_time is NaT (create_trade_record).
NoneDate == NoneTime

\* Fewer trades than this and no pattern is looked for.
MinPatternTrades == 3

InsertAt(s, k, e) == SubSeq(s, 1, k - 1) \o <<e>> \o SubSeq(s, k, Len(s))

\* Every ascending arrangement of the dated trades of d: the head goes into
\* an ascending arrangement of the rest wherever the dates allow.
RECURSIVE AscendingOrders(_)
AscendingOrders(d) ==
    IF d = <<>> THEN {<<>>}
    ELSE UNION {{InsertAt(o, k, Head(d)) :
                    k \in {j \in 1..(Len(o) + 1) :
                              /\ j = 1 \/ o[j - 1].entry_date <= Head(d).entry_date
                              /\ j > Len(o) \/ Head(d).entry_date <= o[j].entry_date}} :
                o \in AscendingOrders(Tail(d))}

\* trades_df.sort_values('entry_date'): ascending by date, the trades without
\* a date last in their original order; quicksort, so trades of the same date
\* may come out in any order.
SortByEntryDate(trades_df) ==
    {o \o SelectSeq(trades_df, LAMBDA t : t.entry_date = NoneDate) :
        o \in AscendingOrders(SelectSeq(trades_df,
                                        LAMBDA t : t.entry_date # NoneDate))}

Finding(pattern, severity, n, direction) ==
    [pattern |-> pattern, severity |-> severity, n |-> n, direction |-> direction]

\* 1. Overtrading: the mean of groupby('entry_date').size() (the trades
\* without a date are in no group) is above 5.
Overtrading(df_sorted) ==
    LET dated == SelectSeq(df_sorted, LAMBDA t : t.entry_date # NoneDate)
        days  == {dated[k].entry_date : k \in DOMAIN dated}
    IN  IF days # {} /\ Len(dated) > 5 * Cardinality(days)
        THEN {Finding("Overtrading", "high", 0, "")}
        ELSE {}

\* 2. The loop over df.iterrows(): max_consecutive after row k and the rows
\* before it.
RECURSIVE MaxConsecutive(_, _, _, _)
MaxConsecutive(df_sorted, k, consecutive_losses, max_consecutive) ==
    IF k > Len(df_sorted) THEN max_consecutive
    ELSE IF df_sorted[k].net_pnl <= 0
    THEN MaxConsecutive(df_sorted, k + 1, consecutive_losses + 1,
                        IF consecutive_losses + 1 > max_consecutive
                        THEN consecutive_losses + 1 ELSE max_consecutive)
    ELSE MaxConsecutive(df_sorted, k + 1, 0, max_consecutive)

LossStreaks(df_sorted) ==
    LET max_consecutive == MaxConsecutive(df_sorted, 1, 0, 0)
    IN  IF max_consecutive >= 5
        THEN {Finding("Loss Streaks", "high", max_consecutive, "")}
        ELSE {}

\* 3. Win rate above 60 with a profit factor below 1.
CuttingWinners(stats) ==
    IF RatioGt(stats.win_rate, 60, 1) /\ RatioLt(stats.profit_factor, 1, 1)
    THEN {Finding("Cutting Winners / Holding Losers", "high", 0, "")}
    ELSE {}

\* 4. Charges above 50% of a positive net profit.
HighBrokerageImpact(stats) ==
    IF stats.net_pnl > 0
       /\ RatioGt(Ratio(stats.total_charges * 100, stats.net_pnl), 50, 1)
    THEN {Finding("High Brokerage Impact", "medium", 0, "")}
    ELSE {}

\* 5. df['discipline_score'].mean() < 60
LowDiscipline(df_sorted) ==
    IF SumSeq([k \in DOMAIN df_sorted |-> df_sorted[k].discipline_score])
          < 60 * Len(df_sorted)
    THEN {Finding("Low Discipline", "high", 0, "")}
    ELSE {}

\* DirectionBias naming the direction whose average is the larger in
\* magnitude, not the higher.
DirectionBiasNamingLarger(stats) ==
    IF stats.long_trades > 0 /\ stats.short_trades > 0
    THEN LET long_avg  == Ratio(stats.long_pnl, stats.long_trades)
             short_avg == Ratio(stats.short_pnl, stats.short_trades)
         IN  IF \/ Abs(long_avg.num) * short_avg.den
                      > Abs(short_avg.num) * 2 * long_avg.den
                \/ Abs(short_avg.num) * long_avg.den
                      > Abs(long_avg.num) * 2 * short_avg.den
             THEN {Finding("Direction Bias", "medium", 0,
                           IF Abs(long_avg.num) * short_avg.den
                                 > Abs(short_avg.num) * long_avg.den
                           THEN "LONG" ELSE "SHORT")}
             ELSE {}
    ELSE {}

\* 6. With trades of both directions: one direction's average P&L is more
\* than twice the other's in magnitude; long_avg = long_pnl / long_trades.
DirectionBias(stats) ==
    IF stats.long_trades > 0 /\ stats.short_trades > 0
    THEN LET long_avg  == Ratio(stats.long_pnl, stats.long_trades)
             short_avg == Ratio(stats.short_pnl, stats.short_trades)
         IN  IF \/ Abs(long_avg.num) * short_avg.den
                      > Abs(short_avg.num) * 2 * long_avg.den
                \/ Abs(short_avg.num) * long_avg.den
                      > Abs(long_avg.num) * 2 * short_avg.den
             THEN {Finding("Direction Bias", "medium", 0,
                           IF long_avg.num * short_avg.den
                                 > short_avg.num * long_avg.den
                           THEN "LONG" ELSE "SHORT")}
             ELSE {}
    ELSE {}

\* The list `patterns` for the frame as sorted, as a set (the findings come in
\* the order of the six checks). Of the description only what is not a
\* formatted float is kept: the streak's length and the better direction.
Patterns(df_sorted) ==
    LET stats == CalculatePortfolioStats(df_sorted)
    IN  Overtrading(df_sorted) \cup LossStreaks(df_sorted)
          \cup CuttingWinners(stats) \cup HighBrokerageImpact(stats)
          \cup LowDiscipline(df_sorted) \cup DirectionBias(stats)

\* ----------------------------------- detect_behavioral_patterns, called alone
\* The longest trade list the detector is called on.
MaxPatternTrades == 6

\* Where the trades' entries stand relative to the list: all on one day and
\* entered in list order; all on one day, the last of the list entered third
\* (a trade of a later symbol, entered while the first symbol's were going
\* on); one a day, the newest first; the first without a date.
PatternProfiles == {"one_day", "one_day_last_entered_third", "newest_first",
                    "first_undated"}

PatternDate(profile, k, n) ==
    IF profile = "newest_first" THEN n + 1 - k
    ELSE IF profile = "first_undated" /\ k = 1 THEN NoneDate
    ELSE 1

\* The trades in the order of their entry times.
EntryOrder(profile, d) ==
    IF profile = "newest_first" THEN [k \in DOMAIN d |-> d[Len(d) + 1 - k]]
    ELSE IF profile = "one_day_last_entered_third" /\ Len(d) > 3
    THEN InsertAt(SubSeq(d, 1, Len(d) - 1), 3, d[Len(d)])
    ELSE d

PatternPnls == {Rupees(-150), 0, Rupees(50)}
PatternScores == {55, 65}

\* Lists up to MinPatternTrades vary in direction and score as well; the
\* longer ones are LONG trades scoring 65. Every trade paid 20 in charges.
PatternChoices(n) ==
    IF n <= MinPatternTrades
    THEN [1..n -> PatternPnls \X Directions \X PatternScores]
    ELSE [1..n -> PatternPnls \X {"LONG"} \X {65}]

PatternTrades(n, c, profile) ==
    [k \in 1..n |-> [entry_date       |-> PatternDate(profile, k, n),
                     net_pnl          |-> c[k][1],
                     total_charges    |-> Rupees(20),
                     discipline_score |-> c[k][3],
                     direction        |-> c[k][2]]]

InitPatterns ==
    /\ \E n \in 0..MaxPatternTrades :
          \E c \in PatternChoices(n) :
             \E profile \in PatternProfiles :
                call = [fn        |-> "detect_behavioral_patterns",
                        trades_df |-> PatternTrades(n, c, profile),
                        entered   |-> EntryOrder(profile,
                                                 PatternTrades(n, c, profile))]
    /\ result = Pending
    /\ ReconIdle
    /\ SessionIdle

\* Lines 184-185
TooFewTrades ==
    /\ call.fn = "detect_behavioral_patterns"
    /\ result = Pending
    /\ Len(call.trades_df) < MinPatternTrades
    /\ result' = Returned({})
    /\ UNCHANGED <<call, reconVars, sessionVars>>

\* Lines 187-266
DetectPatterns ==
    /\ call.fn = "detect_behavioral_patterns"
    /\ result = Pending
    /\ Len(call.trades_df) >= MinPatternTrades
    /\ \E df_sorted \in SortByEntryDate(call.trades_df) :
          result' = Returned(Patterns(df_sorted))
    /\ UNCHANGED <<call, reconVars, sessionVars>>

NextPatterns ==
    \/ TooFewTrades
    \/ DetectPatterns

SpecPatterns == InitPatterns /\ [][NextPatterns]_vars

\* ==================================================================
\* The upload path: process_file -> parse_broker_file -> parse_kotak
\* ==================================================================
\* reconstruct_trades_with_validation as a function of the sorted frame: the
\* row loop of one symbol, then the loop over the symbols.
RECURSIVE RowLoop(_, _, _, _, _)
RowLoop(group, k, queue, tr, symbol) ==
    IF k > Len(group) THEN tr
    ELSE LET r == ProcessRow(queue, tr, group[k], symbol)
         IN  RowLoop(group, k + 1, r.queue, r.trades, symbol)

RECURSIVE SymbolLoop(_, _, _, _)
SymbolLoop(symbols, s, chk, acc) ==
    IF symbols = <<>> THEN acc
    ELSE LET symbol == Head(symbols)
             group  == GroupOf(s, symbol)
         IN  IF ~chk[symbol].matched
             THEN SymbolLoop(Tail(symbols), s, chk,
                     [trades    |-> acc.trades,
                      attention |-> Append(acc.attention,
                                           AttentionItem(symbol, chk[symbol], group))])
             ELSE SymbolLoop(Tail(symbols), s, chk,
                     [trades    |-> RowLoop(group, 1, <<>>, acc.trades, symbol),
                      attention |-> acc.attention])

Reconstruct(s) ==
    SymbolLoop(SymbolsSorted({r.sym : r \in Range(s)}), s, SymbolQtyCheck(s),
               [trades |-> <<>>, attention |-> <<>>])

\* What a parser returns: a tuple of 3 (trades, attention, error) or a tuple
\* of 2 (trades, error). NoError is the error None.
NoError == "None"
Triple(trades_df, attention_df, error) ==
    [arity |-> 3, trades_df |-> trades_df, attention_df |-> attention_df,
     error |-> error]
Pair(trades_df, error) ==
    [arity |-> 2, trades_df |-> trades_df, error |-> error]

\* parse_kotak; s is the frame as sort_values left it.
ParseKotak(file, s) ==
    IF file.kind = "kotak_missing_columns"
    THEN Triple(NoneFrame, NoneFrame,
                "Invalid Kotak format. Missing required columns.")
    ELSE IF file.kind = "kotak_parse_error"
    THEN Triple(NoneFrame, NoneFrame, "Error parsing Kotak file")
    ELSE Triple(Frame(Reconstruct(s).trades), Frame(Reconstruct(s).attention),
                NoError)

ParseZerodha(file) ==
    IF file.kind = "zerodha_invalid"
    THEN Pair(NoneFrame, "Invalid Zerodha format")
    ELSE Pair(NoneFrame,
              "Zerodha FIFO parser coming soon. Use Kotak format for now.")

ParseIcici(file) ==
    IF file.kind = "icici_invalid"
    THEN Pair(NoneFrame, "Invalid ICICI format")
    ELSE Pair(NoneFrame,
              "ICICI FIFO parser coming soon. Use Kotak format for now.")

KotakKinds == {"kotak", "kotak_missing_columns", "kotak_parse_error"}
ZerodhaKinds == {"zerodha", "zerodha_invalid"}
IciciKinds == {"icici", "icici_invalid"}

ParseBrokerFile(file, s) ==
    IF file.kind = "unreadable"
    THEN Pair(NoneFrame, "Error detecting broker format")
    ELSE IF file.kind \in KotakKinds THEN ParseKotak(file, s)
    ELSE IF file.kind \in ZerodhaKinds THEN ParseZerodha(file)
    ELSE IF file.kind \in IciciKinds THEN ParseIcici(file)
    ELSE Pair(NoneFrame,
              "Unrecognized broker format. Supported: Kotak, Zerodha, ICICI Direct")

Message(level, text, n) == [level |-> level, text |-> text, n |-> n]

\* StoreResult keeping the earlier upload's trades and attention items in
\* front of the new ones.
StoreResultMerging(old, trades_df, stats, attention_df) ==
    [trades_df    |-> Frame(old.trades_df.rows \o trades_df.rows),
     stats        |-> stats,
     attention_df |-> Frame(old.attention_df.rows \o attention_df.rows)]

\* StoreResult treating a parse without trades like a failed one: nothing is
\* stored.
StoreResultOnlyWithTrades(old, trades_df, stats, attention_df) ==
    IF ~trades_df.is_none /\ Len(trades_df.rows) > 0
    THEN [trades_df |-> trades_df, stats |-> stats, attention_df |-> attention_df]
    ELSE old

\* Lines 256-259: the three session keys are assigned.
StoreResult(old, trades_df, stats, attention_df) ==
    [trades_df |-> trades_df, stats |-> stats, attention_df |-> attention_df]

HasTrades(trades_df) == ~trades_df.is_none /\ Len(trades_df.rows) > 0

\* Lines 249-254: the scores and the statistics of what the parser returned.
ScoredFrame(trades_df) ==
    IF HasTrades(trades_df)
    THEN Frame(CalculateDisciplineScores(trades_df.rows))
    ELSE trades_df
StatsOf(trades_df) ==
    IF HasTrades(trades_df)
    THEN CalculatePortfolioStats(ScoredFrame(trades_df).rows)
    ELSE EmptyStats

\* Lines 246-247 and 261-264: what a parse without error puts on the page.
SuccessMessages(trades_df, attention_df) ==
    (IF ~HasTrades(trades_df)
     THEN <<Message("warning", "No valid trades found. Check 'Attention Required' tab.", 0)>>
     ELSE <<Message("success", "Processed valid trades!", Len(trades_df.rows))>>)
    \o
    (IF HasTrades(trades_df) /\ ~attention_df.is_none /\ Len(attention_df.rows) > 0
     THEN <<Message("warning", "symbols excluded (see Attention Required tab)",
                    Len(attention_df.rows))>>
     ELSE <<>>)

\* ProcessFile clearing the session when the upload fails.
ProcessFileClearingOnFailure(file) ==
    /\ \E s \in SortOutcomes(file.rows) :
          LET r == ParseBrokerFile(file, s)
          IN  /\ ret' = r
              /\ IF r.arity # 3
                 THEN /\ shown' = <<Message("error",
                            "Error: not enough values to unpack (expected 3, got 2)", 0)>>
                      /\ session' = InitialSession
                 ELSE IF r.error # NoError
                 THEN /\ shown' = <<Message("error", r.error, 0)>>
                      /\ session' = InitialSession
                 ELSE /\ session' = StoreResult(session, ScoredFrame(r.trades_df),
                                                StatsOf(r.trades_df), r.attention_df)
                      /\ shown' = SuccessMessages(r.trades_df, r.attention_df)
    /\ upload' = file
    /\ lastGood' = IF file.kind = "kotak" THEN file ELSE lastGood
    /\ UNCHANGED <<reconVars, callVars>>

\* process_file: the parser's return is unpacked into three names, which
\* raises ValueError for a tuple of 2; `except Exception` shows it.
ProcessFile(file) ==
    /\ \E s \in SortOutcomes(file.rows) :
          LET r == ParseBrokerFile(file, s)
          IN  /\ ret' = r
              /\ IF r.arity # 3
                 THEN /\ shown' = <<Message("error",
                            "Error: not enough values to unpack (expected 3, got 2)", 0)>>
                      /\ session' = session
                 ELSE IF r.error # NoError
                 THEN /\ shown' = <<Message("error", r.error, 0)>>
                      /\ session' = session
                 ELSE /\ session' = StoreResult(session, ScoredFrame(r.trades_df),
                                                StatsOf(r.trades_df), r.attention_df)
                      /\ shown' = SuccessMessages(r.trades_df, r.attention_df)
    /\ upload' = file
    /\ lastGood' = IF file.kind = "kotak" THEN file ELSE lastGood
    /\ UNCHANGED <<reconVars, callVars>>

\* The files a user uploads: Kotak ledgers of up to two rows, Kotak files the
\* parser rejects, Zerodha and ICICI files, a file of no known broker and a
\* file read_csv cannot read.
SessionLedgers ==
    UNION {{Ledger(n, c, "oldest_first") :
               c \in [1..n -> Symbols \X Actions \X {1}]} : n \in 0..2}

OtherKinds == (KotakKinds \ {"kotak"}) \cup ZerodhaKinds \cup IciciKinds
                 \cup {"unrecognized", "unreadable"}

Files ==
    {[kind |-> "kotak", rows |-> l] : l \in SessionLedgers}
       \cup {[kind |-> k, rows |-> <<>>] : k \in OtherKinds}

UploadKotakLedger ==
    \E file \in Files : file.kind = "kotak" /\ ProcessFile(file)
UploadRejectedKotakFile ==
    \E file \in Files : file.kind \in KotakKinds \ {"kotak"} /\ ProcessFile(file)
UploadZerodhaFile ==
    \E file \in Files : file.kind \in ZerodhaKinds /\ ProcessFile(file)
UploadIciciFile ==
    \E file \in Files : file.kind \in IciciKinds /\ ProcessFile(file)
UploadUnrecognizedFile ==
    \E file \in Files : file.kind = "unrecognized" /\ ProcessFile(file)
UploadUnreadableFile ==
    \E file \in Files : file.kind = "unreadable" /\ ProcessFile(file)

InitSession ==
    /\ SessionIdle
    /\ ReconIdle
    /\ CallIdle

NextSession ==
    \/ UploadKotakLedger
    \/ UploadRejectedKotakFile
    \/ UploadZerodhaFile
    \/ UploadIciciFile
    \/ UploadUnrecognizedFile
    \/ UploadUnreadableFile

SpecSession == InitSession /\ [][NextSession]_vars

\* ==================================================================
\* Properties of the reconstruction (specification Spec)
\* ==================================================================
SymbolsOf(d) == {r.sym : r \in Range(d)}

\* The ledger's total quantity of one action for one symbol, row by row.
TotalQty(d, symbol, action) ==
    SumSeq([i \in DOMAIN d |->
              IF d[i].sym = symbol /\ d[i].action = action THEN d[i].qty ELSE 0])

Balanced(d, symbol) == TotalQty(d, symbol, "Buy") = TotalQty(d, symbol, "Sell")

TradesOf(symbol) == SelectSeq(trades, LAMBDA t : t.symbol = symbol)
AttentionOf(symbol) == SelectSeq(attention_required, LAMBDA a : a.symbol = symbol)

\* C1: a symbol whose Buy and Sell totals differ never gets a Trade, and when
\* reconstruction returns it has exactly one AttentionItem, whose difference
\* (and totals) are the ledger's buy total minus its sell total.
C1_ImbalancedSymbolExcluded ==
    \A symbol \in SymbolsOf(df) :
       ~Balanced(df, symbol) =>
          /\ TradesOf(symbol) = <<>>
          /\ pc = "done" =>
                /\ Len(AttentionOf(symbol)) = 1
                /\ AttentionOf(symbol)[1].buy_qty = TotalQty(df, symbol, "Buy")
                /\ AttentionOf(symbol)[1].sell_qty = TotalQty(df, symbol, "Sell")
                /\ AttentionOf(symbol)[1].difference =
                      TotalQty(df, symbol, "Buy") - TotalQty(df, symbol, "Sell")

\* An imbalanced symbol with a Buy and a later Sell (rows the FIFO loop would
\* have paired) is in the attention list, and the other symbol was still
\* reconstructed.
C1_Witness ==
    /\ pc = "done"
    /\ Len(attention_required) = 1
    /\ trades # <<>>
    /\ LET a == attention_required[1]
           g == GroupOf(sorted_df, a.symbol)
       IN  /\ a.difference = 1
           /\ \E i, j \in DOMAIN g :
                 /\ i < j
                 /\ g[i].action = "Buy" /\ g[j].action = "Sell"

\* The position, in the current symbol's processing order, of the row that
\* opened a leg.
OpenedAt(leg) == CHOOSE k \in DOMAIN CurGroup : CurGroup[k].idx = leg.idx

TradeEmitted == Len(trades') = Len(trades) + 1
NewTrade == trades'[Len(trades')]

\* C2: FIFO oldest-first. Whenever a row closes an open leg, the leg it closes
\* was opened before every other leg still open, and it leaves the queue.
C2_OldestFirst ==
    [][TradeEmitted =>
          /\ NewTrade.exit_idx = CurRow.idx
          /\ \E k \in DOMAIN position_queue :
                /\ position_queue[k].idx = NewTrade.entry_idx
                /\ \A j \in DOMAIN position_queue :
                      j # k => OpenedAt(position_queue[k]) < OpenedAt(position_queue[j])
                /\ \A j \in DOMAIN position_queue' :
                      position_queue'[j].idx # NewTrade.entry_idx]_vars

\* Buy t1, Buy t2, Sell t3, Sell t4 of one symbol: both trades are out, the
\* first pairs rows 1 and 3, the second rows 2 and 4.
C2_Witness ==
    /\ pc = "done"
    /\ Len(df) = 4
    /\ \A i \in 1..4 : df[i].time = 90 * i /\ df[i].sym = "AAA"
    /\ df[1].action = "Buy" /\ df[2].action = "Buy"
    /\ df[3].action = "Sell" /\ df[4].action = "Sell"
    /\ Len(trades) = 2
    /\ trades[1].entry_idx = 1 /\ trades[1].exit_idx = 3
    /\ trades[2].entry_idx = 2 /\ trades[2].exit_idx = 4

AtEndOfSymbol == pc = "rows" /\ rowPos > Len(CurGroup)

\* How many trades of the current symbol a row takes part in.
UsesOf(row) ==
    Cardinality({k \in DOMAIN trades :
                    /\ trades[k].symbol = CurSymbol
                    /\ (trades[k].entry_idx = row.idx \/ trades[k].exit_idx = row.idx)})

\* C5: a balanced symbol ends its row loop with an empty queue and each of its
\* rows in exactly one Trade.
C5_BalancedSymbolFullyMatched ==
    AtEndOfSymbol =>
       /\ position_queue = <<>>
       /\ \A k \in DOMAIN CurGroup : UsesOf(CurGroup[k]) = 1

UniformLots(d, symbol) ==
    \A i, j \in DOMAIN d :
       (d[i].sym = symbol /\ d[j].sym = symbol) => d[i].qty = d[j].qty

TradeQty(symbol) ==
    SumSeq([k \in DOMAIN TradesOf(symbol) |-> TradesOf(symbol)[k].quantity])

\* C6: when reconstruction returns, a balanced symbol whose rows all have the
\* same quantity has Trades whose quantities sum to its total Buy quantity
\* (which is its total Sell quantity).
C6_UniformLotsConserveQuantity ==
    pc = "done" =>
       \A symbol \in SymbolsOf(df) :
          (Balanced(df, symbol) /\ UniformLots(df, symbol)) =>
             /\ TradeQty(symbol) = TotalQty(df, symbol, "Buy")
             /\ TradeQty(symbol) = TotalQty(df, symbol, "Sell")

\* A balanced symbol of four rows of quantity 2 gave two trades.
C6_Witness ==
    /\ pc = "done"
    /\ Len(df) = 4
    /\ \A i \in 1..4 : df[i].sym = "BBB" /\ df[i].qty = 2
    /\ Balanced(df, "BBB")
    /\ TradeQty("BBB") = 4

NullTime(t) == t = NaT \/ t = NoneTime
SameTime(a, b) == IF NullTime(a) \/ NullTime(b) THEN NullTime(a) /\ NullTime(b)
                  ELSE a = b

NoLongOpen(queue) == \A k \in DOMAIN queue : queue[k].type # "long"

\* C7: a Sell that arrives when no Long leg is open becomes a Short open leg
\* and emits nothing; the Buy that closes a Short leg emits exactly one Trade,
\* SHORT, entered at the Sell's timestamp and exited at the Buy's; and an
\* emitted Trade is LONG exactly when its entry row is a Buy and its exit row
\* a Sell, SHORT exactly when its entry row is a Sell and its exit row a Buy.
C7_ShortDetection ==
    [][(pc = "rows" /\ rowPos' = rowPos + 1) =>
          /\ (CurRow.action = "Sell" /\ NoLongOpen(position_queue)) =>
                /\ trades' = trades
                /\ Len(position_queue') = Len(position_queue) + 1
                /\ position_queue'[Len(position_queue')].type = "short"
                /\ position_queue'[Len(position_queue')].idx = CurRow.idx
                /\ SubSeq(position_queue', 1, Len(position_queue)) = position_queue
          /\ (CurRow.action = "Buy" /\ position_queue # <<>>
                /\ position_queue[1].type = "short") =>
                /\ TradeEmitted
                /\ NewTrade.direction = "SHORT"
                /\ NewTrade.entry_idx = position_queue[1].idx
                /\ NewTrade.exit_idx = CurRow.idx
          /\ TradeEmitted =>
                /\ SubSeq(trades', 1, Len(trades)) = trades
                /\ SameTime(NewTrade.entry_time, df[NewTrade.entry_idx].time)
                /\ SameTime(NewTrade.exit_time, df[NewTrade.exit_idx].time)
                /\ NewTrade.direction = "LONG" <=>
                      /\ df[NewTrade.entry_idx].action = "Buy"
                      /\ df[NewTrade.exit_idx].action = "Sell"
                /\ NewTrade.direction = "SHORT" <=>
                      /\ df[NewTrade.entry_idx].action = "Sell"
                      /\ df[NewTrade.exit_idx].action = "Buy"]_vars

\* A symbol traded short and then long: Sell, Buy, Buy, Sell gave a SHORT
\* trade entered at the first Sell and a LONG trade after it.
C7_Witness ==
    /\ pc = "done"
    /\ Len(trades) = 2
    /\ trades[1].symbol = trades[2].symbol
    /\ trades[1].direction = "SHORT" /\ trades[2].direction = "LONG"
    /\ df[trades[1].entry_idx].action = "Sell"
    /\ trades[1].entry_time = df[trades[1].entry_idx].time
    /\ trades[1].exit_time = df[trades[1].exit_idx].time
    /\ trades[1].entry_time < trades[1].exit_time

Homogeneous(queue) ==
    \A i, j \in DOMAIN queue : queue[i].type = queue[j].type

\* C15: queue homogeneity. The deque never holds legs of both kinds, and
\* whenever the front leg is not one the next row closes, no leg behind it is
\* either: the test of the front leg decides for the whole queue.
C15_QueueHomogeneous ==
    /\ Homogeneous(position_queue)
    /\ (pc = "rows" /\ rowPos <= Len(CurGroup)) =>
          /\ (/\ CurRow.action = "Buy"
              /\ (position_queue = <<>> \/ position_queue[1].type # "short")) =>
                \A k \in DOMAIN position_queue : position_queue[k].type # "short"
          /\ (/\ CurRow.action = "Sell"
              /\ (position_queue = <<>> \/ position_queue[1].type # "long")) =>
                \A k \in DOMAIN position_queue : position_queue[k].type # "long"

\* Two Short legs are open and the next row of the symbol is a Buy: it closes
\* the front one.
C15_Witness ==
    /\ pc = "rows" /\ rowPos <= Len(CurGroup)
    /\ Len(position_queue) = 2
    /\ position_queue[1].type = "short" /\ position_queue[2].type = "short"
    /\ CurRow.action = "Buy"

TradeChargesPaired ==
    \A k \in DOMAIN trades :
       trades[k].total_charges =
          df[trades[k].entry_idx].charges + df[trades[k].exit_idx].charges

\* The charge totals of a symbol's rows, and of its Trades.
RowCharge(symbol) ==
    SumSeq([i \in DOMAIN df |-> IF df[i].sym = symbol THEN df[i].charges ELSE 0])
TradeCharge(symbol) ==
    SumSeq([k \in DOMAIN TradesOf(symbol) |-> TradesOf(symbol)[k].total_charges])

\* C18: every Trade's total_charges is its entry leg's charge total plus its
\* exit row's, and when reconstruction returns the Trades of a balanced symbol
\* carry the charges of all its rows, each once: their total_charges sum to
\* the sum of the rows' charge totals.
C18_ChargesConserved ==
    /\ TradeChargesPaired
    /\ pc = "done" =>
          \A symbol \in SymbolsOf(df) :
             Balanced(df, symbol) => TradeCharge(symbol) = RowCharge(symbol)

\* What reconstruction gives for a ledger holding the rows of one symbol only
\* (the rows keep their index labels), for each order the sort can leave.
AloneOutcomes(symbol) ==
    {[trades    |-> Reconstruct(s).trades,
      attention |-> Reconstruct(s).attention] :
        s \in SortOutcomes(GroupOf(df, symbol))}

C16_StableAscendingOrder ==
    pc # "start" =>
       \A symbol \in SymbolsOf(df) :
          Balanced(df, symbol) =>
             LET g == GroupOf(sorted_df, symbol)
             IN  \A i, j \in DOMAIN g :
                    (i < j /\ g[i].time # NaT /\ g[j].time # NaT) =>
                       \/ g[i].time < g[j].time
                       \/ g[i].time = g[j].time /\ g[i].idx < g[j].idx

BuyRows(d, symbol) ==
    Len(SelectSeq(d, LAMBDA r : r.sym = symbol /\ r.action = "Buy"))

\* C19: null timestamps never fail reconstruction. The rows without a
\* timestamp are processed after all the others, in their ledger order; a
\* Trade with a null entry or exit timestamp has holding_period_minutes = 0
\* and is Intraday (every Trade is Intraday exactly when its holding period
\* is below 1440); reconstruction is never stuck before it returns, and when
\* it returns every balanced symbol has a Trade for each of its Buy rows
\* (the rows here are single lots) and every other symbol an AttentionItem.
C19_NullTimestampsTolerated ==
    /\ pc # "start" =>
          \A i, j \in DOMAIN sorted_df :
             (i < j /\ sorted_df[i].time = NaT) =>
                sorted_df[j].time = NaT /\ sorted_df[i].idx < sorted_df[j].idx
    /\ \A k \in DOMAIN trades :
          /\ (NullTime(trades[k].entry_time) \/ NullTime(trades[k].exit_time)) =>
                /\ trades[k].holding_period_minutes = 0
                /\ trades[k].trade_type = "Intraday"
          /\ trades[k].trade_type = "Intraday"
                <=> trades[k].holding_period_minutes < 1440
    /\ pc # "done" => ENABLED Next
    /\ pc = "done" =>
          \A symbol \in SymbolsOf(df) :
             IF Balanced(df, symbol)
             THEN Len(TradesOf(symbol)) = BuyRows(df, symbol)
             ELSE Len(AttentionOf(symbol)) = 1

\* The ledger's first row has no timestamp: it was processed after the later
\* Sell of its symbol and closed it, giving a SHORT Trade with no exit time,
\* a holding period of 0 and type Intraday; the third row's symbol was
\* handled as well.
C19_Witness ==
    /\ pc = "done"
    /\ Len(df) = 3
    /\ df[1].time = NaT /\ df[1].action = "Buy"
    /\ Len(trades) = 1
    /\ trades[1].direction = "SHORT"
    /\ trades[1].exit_idx = 1
    /\ trades[1].exit_time = NoneTime
    /\ trades[1].entry_time # NaT
    /\ trades[1].holding_period_minutes = 0
    /\ trades[1].trade_type = "Intraday"
    /\ Len(attention_required) = 1

\* The ledger row with index label idx (the labels are the positions in df).
RowOf(idx) == df[idx]

\* The index labels of the rows that are the entry or the exit of a Trade.
PairedIdx == {trades[k].entry_idx : k \in DOMAIN trades}
                \cup {trades[k].exit_idx : k \in DOMAIN trades}

\* C24: quantity is never split. A Trade pairs one whole entry leg with one
\* whole exit row: its quantity, and the quantity in its gross_pnl, is the
\* entry row's, whatever the exit row's; and an open leg holds its row's whole
\* quantity and is the remainder of no paired row.
C24_QuantityNeverSplit ==
    /\ \A k \in DOMAIN trades :
          LET t == trades[k]
              e == RowOf(t.entry_idx)
              x == RowOf(t.exit_idx)
          IN  /\ t.entry_idx # t.exit_idx
              /\ e.sym = t.symbol /\ x.sym = t.symbol
              /\ t.quantity = e.qty
              /\ t.gross_pnl = Round2(IF t.direction = "LONG"
                                      THEN (x.price - e.price) * e.qty
                                      ELSE (e.price - x.price) * e.qty)
    /\ pc = "rows" =>
          \A k \in DOMAIN position_queue :
             /\ position_queue[k].qty = RowOf(position_queue[k].idx).qty
             /\ position_queue[k].idx \notin PairedIdx

\* Buy 2 closed by Sell 1: the Trade's quantity is 2, and the next Sell 1 did
\* not take the rest of the Buy but opened a leg of its own.
C24_Witness ==
    /\ pc = "rows"
    /\ Len(trades) = 1
    /\ RowOf(trades[1].entry_idx).qty = 2
    /\ RowOf(trades[1].exit_idx).qty = 1
    /\ trades[1].quantity = 2
    /\ Len(position_queue) = 1
    /\ position_queue[1].type = "short"
    /\ position_queue[1].qty = 1

\* C25: reconstruction terminates on every ledger, and an AttentionItem
\* exists for a symbol if and only if its total Buy and Sell quantities
\* differ: a balanced symbol never has one, whatever is left in its queue
\* when its rows are done.
C25_TerminatesWithoutResidueAttention ==
    /\ <>(pc = "done")
    /\ [](\A symbol \in SymbolsOf(df) :
            /\ Balanced(df, symbol) => AttentionOf(symbol) = <<>>
            /\ pc = "done" =>
                  (AttentionOf(symbol) # <<>> <=> ~Balanced(df, symbol)))

\* A balanced symbol with lots of different sizes (Buy 1, Buy 1, Sell 2)
\* was reconstructed: one leg is still in the queue at the return and the
\* attention list is empty.
C25_Witness ==
    /\ pc = "done"
    /\ SymbolsOf(df) = {"AAA"}
    /\ Balanced(df, "AAA")
    /\ Len(df) = 3
    /\ Len(trades) = 1
    /\ Len(position_queue) = 1
    /\ position_queue[1].type = "long"
    /\ attention_required = <<>>

\* The position of the row with index label idx in the sorted frame.
SortedPos(idx) == CHOOSE k \in DOMAIN sorted_df : sorted_df[k].idx = idx

\* C26: every Trade has holding_period_minutes >= 0 (the scorer's branch for
\* a negative holding period is never taken for it); its entry row comes
\* before its exit row in the sorted frame; and when both its timestamps are
\* present, entry_time <= exit_time and the holding period is their
\* difference in whole minutes.
C26_HoldingNeverNegative ==
    \A k \in DOMAIN trades :
       LET t == trades[k]
       IN  /\ t.holding_period_minutes >= 0
           /\ SortedPos(t.entry_idx) < SortedPos(t.exit_idx)
           /\ (~NullTime(t.entry_time) /\ ~NullTime(t.exit_time)) =>
                 /\ t.entry_time <= t.exit_time
                 /\ t.holding_period_minutes = (t.exit_time - t.entry_time) \div 60
           /\ (NullTime(t.entry_time) \/ NullTime(t.exit_time)) =>
                 t.holding_period_minutes = 0

\* A ledger listing the Sell of the next day before the Buy: the sort puts
\* the Buy first, and the LONG Trade holds for 1440 minutes.
C26_Witness ==
    /\ pc = "done"
    /\ Len(trades) = 1
    /\ trades[1].direction = "LONG"
    /\ trades[1].entry_idx = 2 /\ trades[1].exit_idx = 1
    /\ trades[1].entry_time = 90
    /\ trades[1].exit_time = 90 + 1440 * 60
    /\ trades[1].holding_period_minutes = 1440

\* The Trades a ledger row is the entry of, and those it is the exit of.
EntryUses(idx) == {k \in DOMAIN trades : trades[k].entry_idx = idx}
ExitUses(idx) == {k \in DOMAIN trades : trades[k].exit_idx = idx}

\* The index labels of the open legs.
OpenIdx == {position_queue[k].idx : k \in DOMAIN position_queue}

\* C27: row conservation. While a balanced symbol's rows are processed, the
\* number of rows processed so far is twice the number of the symbol's
\* Trades plus the length of the queue: a processed row is either an open leg
\* or the entry or the exit of exactly one Trade, and a row not yet processed
\* is none of these. No row is ever in two Trades, or the entry and the exit
\* of one.
C27_RowConservation ==
    /\ \A i \in DOMAIN df :
          Cardinality(EntryUses(i)) + Cardinality(ExitUses(i)) <= 1
    /\ pc = "rows" =>
          /\ rowPos - 1 = 2 * Len(TradesOf(CurSymbol)) + Len(position_queue)
          /\ Cardinality(OpenIdx) = Len(position_queue)
          /\ \A k \in DOMAIN CurGroup :
                LET i == CurGroup[k].idx
                    uses == Cardinality(EntryUses(i)) + Cardinality(ExitUses(i))
                IN  IF k < rowPos
                    THEN (i \in OpenIdx /\ uses = 0) \/ (i \notin OpenIdx /\ uses = 1)
                    ELSE i \notin OpenIdx /\ uses = 0

\* Three of a balanced symbol's four rows are processed: one Trade is out
\* and one leg is open (3 = 2 x 1 + 1).
C27_Witness ==
    /\ pc = "rows"
    /\ Len(CurGroup) = 4
    /\ rowPos = 4
    /\ Len(TradesOf(CurSymbol)) = 1
    /\ Len(position_queue) = 1

\* C28: non-crossing matches. Of two Trades of one symbol, the one whose
\* entry row was processed first is emitted first, and its exit row was
\* processed before the other's exit row.
C28_NonCrossingMatches ==
    \A x, y \in DOMAIN trades :
       (/\ trades[x].symbol = trades[y].symbol
        /\ SortedPos(trades[x].entry_idx) < SortedPos(trades[y].entry_idx)) =>
          /\ x < y
          /\ SortedPos(trades[x].exit_idx) < SortedPos(trades[y].exit_idx)

\* Two legs were open at once and both got closed: the Trade of the leg
\* opened first came out first, closed by the earlier of the two exit rows.
C28_Witness ==
    /\ pc = "done"
    /\ Len(trades) = 2
    /\ trades[1].symbol = trades[2].symbol
    /\ SortedPos(trades[1].entry_idx) < SortedPos(trades[2].entry_idx)
    /\ SortedPos(trades[2].entry_idx) < SortedPos(trades[1].exit_idx)
    /\ SortedPos(trades[1].exit_idx) < SortedPos(trades[2].exit_idx)

\* ==================================================================
\* Properties of the scorer (specification SpecScore)
\* ==================================================================
\* C8: calculate_single_trade_score returns a value in [0,100] for every
\* trade it is called on.
C8_ScoreInRange ==
    result.done => (result.value >= 0 /\ result.value <= 100)

\* The extreme trade: no profit, no position value, no charges, a negative
\* holding period, an unknown trade type; it scores 15 + 10 + 10 + 5 + 10.
C8_Witness ==
    /\ result.done
    /\ call.trade.net_pnl = 0
    /\ PositionValue(call.trade) = 0
    /\ call.trade.total_charges = 0
    /\ call.trade.holding_period_minutes < 0
    /\ call.trade.trade_type = "Unknown"
    /\ result.value = 50

\* The sum of the five components before min(score, 100).
UnclampedScore(trade) ==
    PnlScore(trade) + HoldingScore(trade.holding_period_minutes)
       + SizingScore(PositionValue(trade)) + ChargeScore(trade)
       + ExecutionScore(trade.trade_type)

\* C20: each of the five components is within its maximum (30, 20, 20, 15,
\* 15), so their sum is at most 100 and min(score, 100) returns the sum
\* unchanged.
C20_ComponentsWithinMaxima ==
    result.done =>
       /\ PnlScore(call.trade) \in 0..30
       /\ HoldingScore(call.trade.holding_period_minutes) \in 0..20
       /\ SizingScore(PositionValue(call.trade)) \in 0..20
       /\ ChargeScore(call.trade) \in 0..15
       /\ ExecutionScore(call.trade.trade_type) \in 0..15
       /\ UnclampedScore(call.trade) <= 100
       /\ result.value = UnclampedScore(call.trade)

\* The best trade: every component at its maximum, the sum 100 exactly.
C20_Witness ==
    /\ result.done
    /\ PnlScore(call.trade) = 30
    /\ HoldingScore(call.trade.holding_period_minutes) = 20
    /\ SizingScore(PositionValue(call.trade)) = 20
    /\ ChargeScore(call.trade) = 15
    /\ ExecutionScore(call.trade.trade_type) = 15
    /\ result.value = 100

\* The holding-period tiers as a table of disjoint cases.
HoldingTier(h) ==
    CASE h < 0                     -> 10
      [] 0 <= h /\ h < 5           -> 5
      [] 5 <= h /\ h < 15          -> 10
      [] 15 <= h /\ h <= 240       -> 20
      [] 240 < h /\ h <= 480       -> 15
      [] 480 < h /\ h <= 1440      -> 10
      [] h > 1440                  -> 18

\* C21: the holding-period component of the returned score (the score less
\* its four other components) is 10 for a negative holding_minutes, 5 for
\* 0..4, 20 for 15..240, 15 for 241..480, 18 above 1440 and 10 in the two
\* remaining ranges, 5..14 and 481..1440.
C21_HoldingTiers ==
    result.done =>
       LET t == call.trade
           h == t.holding_period_minutes
       IN  result.value - (PnlScore(t) + SizingScore(PositionValue(t))
                             + ChargeScore(t) + ExecutionScore(t.trade_type))
              = HoldingTier(h)

\* A trade with a negative holding period was scored, its holding component
\* being 10: a break-even trade of 100 at 100.00 with charges of 1, Intraday,
\* scores 15 + 10 + 20 + 5 + 15.
C21_Witness ==
    /\ result.done
    /\ call.trade.holding_period_minutes = -5
    /\ call.trade.net_pnl = 0
    /\ call.trade.entry_price = Rupees(100) /\ call.trade.quantity = 100
    /\ call.trade.total_charges = Rupees(1)
    /\ call.trade.trade_type = "Intraday"
    /\ result.value = 65

\* ==================================================================
\* Properties of calculate_portfolio_stats (specification SpecStats)
\* ==================================================================
NoLosingTrades(trades_df) ==
    Len(trades_df) > 0 /\ \A k \in DOMAIN trades_df : trades_df[k].net_pnl > 0

CountOf(d, P(_)) == Cardinality({k \in DOMAIN d : P(d[k])})

BreaksEven(t) == t.net_pnl = 0
MakesProfit(t) == t.net_pnl > 0
MakesNoProfit(t) == t.net_pnl <= 0
LosesMoney(t) == t.net_pnl < 0

\* C30: for a non-empty trade set, winning_trades counts the trades with
\* net_pnl > 0 (those whose win flag is true) and losing_trades those with
\* net_pnl <= 0, so the two add up to total_trades; a break-even trade has a
\* false win flag and is among the losing trades; and win_rate is
\* winning_trades / total_trades x 100.
C30_WinsAndLossesPartition ==
    (result.done /\ Len(call.trades_df) > 0) =>
       LET d == call.trades_df
           v == result.value
       IN  /\ v.total_trades = Len(d)
           /\ v.winning_trades = CountOf(d, MakesProfit)
           /\ v.winning_trades = CountOf(d, WinFlag)
           /\ v.losing_trades = CountOf(d, MakesNoProfit)
           /\ v.winning_trades + v.losing_trades = v.total_trades
           /\ \A k \in DOMAIN d : BreaksEven(d[k]) => ~WinFlag(d[k])
           /\ v.losing_trades = CountOf(d, LosesMoney) + CountOf(d, BreaksEven)
           /\ v.win_rate.num * v.total_trades
                 = v.winning_trades * 100 * v.win_rate.den

\* A win, a loss and a break-even trade: 1 winning, 2 losing, win rate 100/3.
C30_Witness ==
    /\ result.done
    /\ Len(call.trades_df) = 3
    /\ CountOf(call.trades_df, BreaksEven) = 1
    /\ CountOf(call.trades_df, MakesProfit) = 1
    /\ result.value.winning_trades = 1
    /\ result.value.losing_trades = 2
    /\ result.value.win_rate = Ratio(100, 3)

\* ==================================================================
\* Properties of create_trade_record (specification SpecRecord)
\* ==================================================================
\* C4: the stored net_pnl is the stored gross_pnl minus the stored
\* total_charges.
C4_NetIsGrossMinusCharges ==
    result.done =>
       result.value.net_pnl = result.value.gross_pnl - result.value.total_charges

WholeCents(price) == price % 5 = 0

\* The gross formula over the fields the Trade stores.
GrossFromStored(t) ==
    IF t.direction = "LONG"
    THEN (t.exit_price - t.entry_price) * t.quantity
    ELSE (t.entry_price - t.exit_price) * t.quantity

DetectOutcomes(trades_df) ==
    IF Len(trades_df) < MinPatternTrades THEN {{}}
    ELSE {Patterns(df_sorted) : df_sorted \in SortByEntryDate(trades_df)}

\* The list with the trades at i and j exchanged; the exchanges of two trades
\* generate every permutation of the list.
Swapped(d, i, j) ==
    [k \in DOMAIN d |-> IF k = i THEN d[j] ELSE IF k = j THEN d[i] ELSE d[k]]

\* C13: detect_behavioral_patterns is order-insensitive. A list of fewer than
\* 3 trades gives no findings, and for a list of at least 3 the findings
\* returned are the only ones any reordering of the list gives.
C13_OrderInsensitive ==
    result.done =>
       /\ Len(call.trades_df) < 3 => result.value = {}
       /\ Len(call.trades_df) >= 3 =>
             \A i, j \in DOMAIN call.trades_df :
                i < j => DetectOutcomes(Swapped(call.trades_df, i, j))
                            = {result.value}

AllDated(d) == \A k \in DOMAIN d : d[k].entry_date # NoneDate

\* Five consecutive trades without a profit, the trades taken as d lists them.
HasLossRun(d) ==
    \E i \in 1..(Len(d) - 4) : \A k \in i..(i + 4) : d[k].net_pnl <= 0

\* C17: the Loss Streaks finding is raised exactly when the longest run of
\* consecutive trades with net_pnl <= 0, the trades taken in the order of
\* their entry times, has length at least 5.
C17_LossStreakInEntryOrder ==
    (result.done /\ AllDated(call.trades_df)) =>
       ((\E f \in result.value : f.pattern = "Loss Streaks")
           <=> HasLossRun(call.entered))

Raised(pattern) == \E f \in result.value : f.pattern = pattern

\* C22: the Cutting Winners / Holding Losers finding is raised exactly when
\* more than 60% of the trades are wins and the sum of the winning net_pnl,
\* divided by the absolute value of the sum of the losing net_pnl, is below 1
\* (the winnings are less than the losses).
C22_CuttingWinnersExactly ==
    result.done =>
       LET d == call.trades_df
       IN  Raised("Cutting Winners / Holding Losers")
              <=> /\ Len(d) > 0
                  /\ Len(Wins(d)) * 100 > 60 * Len(d)
                  /\ SumNetPnl(Wins(d)) < Abs(SumNetPnl(Losses(d)))

\* The trades of both directions of d exist.
BothDirections(d) ==
    Len(OfDirection(d, "LONG")) > 0 /\ Len(OfDirection(d, "SHORT")) > 0

\* avg(a) > k * avg(b) for the per-trade averages of the non-empty lists a and
\* b, the averages taken in absolute value when magnitude is set.
AvgExceeds(a, b, k, magnitude) ==
    IF magnitude
    THEN Abs(SumNetPnl(a)) * Len(b) > k * Abs(SumNetPnl(b)) * Len(a)
    ELSE SumNetPnl(a) * Len(b) > k * SumNetPnl(b) * Len(a)

\* The Direction Bias rule on the trade list d: raised exactly when one
\* direction's average net P&L is more than twice the other's in absolute
\* value, naming the direction with the higher average; never raised when
\* only one direction exists.
DirectionBiasRule(d) ==
    LET long_trades  == OfDirection(d, "LONG")
        short_trades == OfDirection(d, "SHORT")
    IN  IF BothDirections(d)
        THEN /\ Raised("Direction Bias")
                   <=> \/ AvgExceeds(long_trades, short_trades, 2, TRUE)
                       \/ AvgExceeds(short_trades, long_trades, 2, TRUE)
             /\ \A f \in result.value :
                   f.pattern = "Direction Bias" =>
                      /\ f.severity = "medium"
                      /\ f.direction = "LONG"
                            <=> AvgExceeds(long_trades, short_trades, 1, FALSE)
                      /\ f.direction = "SHORT"
                            <=> ~AvgExceeds(long_trades, short_trades, 1, FALSE)
        ELSE ~Raised("Direction Bias")

\* C23 as stated: whenever both LONG and SHORT trades exist, the Direction
\* Bias finding is raised exactly when one direction's average per-trade net
\* P&L is more than 2x the other's in absolute value, and names the direction
\* with the higher average; with one direction only it is not raised.
C23_DirectionBias ==
    result.done => DirectionBiasRule(call.trades_df)

\* C23 as amended: the rule holds for a list of at least 3 trades; a shorter
\* list gets no finding at all, whatever its directions' averages.
C23_DirectionBiasFromThreeTrades ==
    result.done =>
       IF Len(call.trades_df) >= 3 THEN DirectionBiasRule(call.trades_df)
       ELSE result.value = {}

\* Two LONG trades losing 150 each and a SHORT trade winning 50: the LONG
\* average is the larger in magnitude (150 > 2 x 50) and the finding names
\* SHORT, the higher average.
C23_Witness ==
    /\ result.done
    /\ Len(call.trades_df) = 3
    /\ Len(OfDirection(call.trades_df, "LONG")) = 2
    /\ SumNetPnl(OfDirection(call.trades_df, "LONG")) = Rupees(-300)
    /\ SumNetPnl(OfDirection(call.trades_df, "SHORT")) = Rupees(50)
    /\ Finding("Direction Bias", "medium", 0, "SHORT") \in result.value

\* ==================================================================
\* Properties of the upload path (specification SpecSession)
\* ==================================================================
Uploaded == upload # NoFile

\* C9: parse_broker_file hands process_file a triple on every path, and a
\* parser error is what process_file shows.
C9_ParserReturnsTriple ==
    Uploaded =>
       /\ ret.arity = 3
       /\ ret.error # NoError => shown = <<Message("error", ret.error, 0)>>

NoTradesWarning ==
    Message("warning", "No valid trades found. Check 'Attention Required' tab.", 0)

\* C14: an upload that parses without error but yields no Trades is not
\* treated as a failed one. process_file stores the empty trade frame (not
\* None), empty stats and the parser's attention list, and shows the
\* no-trades warning; on a parser error it leaves the session as it was and
\* shows one error message and nothing else (the parser's own message when
\* the parser returned a triple).
C14_EmptyResultIsNotAnError ==
    [][/\ (ret'.error = NoError /\ ~HasTrades(ret'.trades_df)) =>
             /\ session'.trades_df = Frame(<<>>)
             /\ session'.stats = EmptyStats
             /\ session'.attention_df = ret'.attention_df
             /\ session'.attention_df \in
                   {Frame(Reconstruct(s).attention) :
                       s \in SortOutcomes(upload'.rows)}
             /\ shown' = <<NoTradesWarning>>
       /\ ret'.error # NoError =>
             /\ session' = session
             /\ Len(shown') = 1
             /\ shown'[1].level = "error"
             /\ ret'.arity = 3 => shown'[1].text = ret'.error]_vars

\* A ledger with a trade was stored; then a ledger whose only symbol is
\* imbalanced was uploaded: the session holds no trades, empty stats and the
\* one attention item, and the page shows the warning.
C14_Witness ==
    /\ upload.kind = "kotak"
    /\ ret.error = NoError
    /\ ret.trades_df = Frame(<<>>)
    /\ Len(ret.attention_df.rows) = 1
    /\ session = [trades_df    |-> Frame(<<>>),
                  stats        |-> EmptyStats,
                  attention_df |-> ret.attention_df]
    /\ shown = <<NoTradesWarning>>

\* The upload just handled failed: the parser returned an error, or its
\* return could not be unpacked into three names (the exception is caught by
\* process_file).
UploadFailed(r) == r.arity # 3 \/ r.error # NoError

\* C29: an upload that fails leaves the session's trades, stats and
\* attention list exactly as they were before it, and the page shows one
\* error message.
C29_FailedUploadLeavesSession ==
    [][UploadFailed(ret') =>
          /\ session'.trades_df = session.trades_df
          /\ session'.stats = session.stats
          /\ session'.attention_df = session.attention_df
          /\ Len(shown') = 1 /\ shown'[1].level = "error"]_vars

\* A ledger with a trade was stored; then a Kotak file on which the parser
\* raised was uploaded: the error is on the page and the stored trade, its
\* stats and the attention list are still in the session.
C29_Witness ==
    /\ upload.kind = "kotak_parse_error"
    /\ UploadFailed(ret)
    /\ shown = <<Message("error", "Error parsing Kotak file", 0)>>
    /\ lastGood # NoFile
    /\ ~session.trades_df.is_none /\ Len(session.trades_df.rows) = 1
    /\ session.stats # EmptyStats /\ session.stats # NoneStats
    /\ session.stats.total_trades = 1
    /\ ~session.attention_df.is_none

\* What process_file stores for a readable Kotak ledger.
StoredResults(file) ==
    {LET r == ParseKotak(file, s)
     IN  [trades_df    |-> ScoredFrame(r.trades_df),
          stats        |-> StatsOf(r.trades_df),
          attention_df |-> r.attention_df] : s \in SortOutcomes(file.rows)}

\* C10 as stated: after any sequence of uploads the session holds the result
\* of the most recent upload alone, and nothing of an earlier upload: the
\* result of the last file when it parsed, nothing stored when it did not.
C10_SessionIsLastUpload ==
    Uploaded =>
       IF upload.kind = "kotak" THEN session \in StoredResults(upload)
       ELSE session = InitialSession

\* C10 as amended: the session holds the result of the most recent upload that
\* parsed without error, alone (replaced, never merged), and the three None
\* while there has been none; an upload that fails leaves it as it was.
C10_SessionIsLastParsedUpload ==
    IF lastGood = NoFile THEN session = InitialSession
    ELSE session \in StoredResults(lastGood)

\* A ledger with a trade was stored, then a ledger whose only symbol is
\* imbalanced replaced it (no trades, one attention item), then a Zerodha
\* file failed and left that in place.
C10_Witness ==
    /\ upload.kind = "zerodha"
    /\ lastGood # NoFile
    /\ Len(lastGood.rows) = 1
    /\ session.trades_df = Frame(<<>>)
    /\ session.stats = EmptyStats
    /\ Len(session.attention_df.rows) = 1

====
